---- MODULE Spec2Model ----
(***************************************************************************)
(* Benchmark harness of webdnn (src/unnamed/part_000): the click handler   *)
(* run(), BaseBenchmark.runAsync and its promise chain, the three engine   *)
(* adapters, and BaseBenchmark.summarize.                                  *)
(*                                                                         *)
(* Scheduling follows the browser's event loop.  An action is one task (a *)
(* click, a timer, the settling of an engine promise) together with the    *)
(* promise reactions it queues, which run to completion before the next    *)
(* task starts.  Each handler of the source is an operator from program    *)
(* state to program state; Drain runs the queued reactions of a run.       *)
(***************************************************************************)
EXTENDS Integers, Sequences, FiniteSets

\* Number of clicks on the run button that are modelled.
MaxRuns == 2
\* Largest value typed into the iterations field.
MaxField == 1
\* Largest value of the iterations field in the single-run specification.
MaxFieldSolo == 3
\* let numIteration = 5 when the field does not parse
DefaultIterations == 5

Runs == 1..MaxRuns
\* One benchmark object per adapter class registered at DOMContentLoaded.
Bench == {"webdnn", "keras", "deeplearn"}
Models == {"resnet50", "inception_v3"}
\* Number(iterations.value): <<>> is NaN, <<v>> the number v.  Overlapping
\* runs are explored with short runs; the single-run specification adds
\* longer ones and the field that does not parse.
FieldValues == {<<v>> : v \in 0..MaxField}
FieldValuesSolo == {<<>>} \cup {<<v>> : v \in 0..MaxFieldSolo}
\* Elapsed times (ms) performance.now() - tStart may yield.
Elapsed == {10}
ElapsedSolo == {9, 10, 20, 30}

-----------------------------------------------------------------------------
(* JavaScript numbers: an exact rational, NaN, an infinity, or the square  *)
(* root of a positive rational that is not a perfect square.               *)

RECURSIVE GCD(_, _)
GCD(a, b) == IF b = 0 THEN a ELSE GCD(b, a % b)

Abs(x) == IF x < 0 THEN -x ELSE x

NaN == [k |-> "NaN", n |-> 0, d |-> 0]
Inf(sign) == [k |-> "Inf", n |-> sign, d |-> 0]

\* The rational n/d (d # 0) in lowest terms with a positive denominator.
Num(n, d) ==
    LET g == GCD(Abs(n), Abs(d))
        s == IF d < 0 THEN -1 ELSE 1
    IN  [k |-> "num", n |-> s * (n \div g), d |-> s * (d \div g)]

Int2Num(n) == [k |-> "num", n |-> n, d |-> 1]

Sign(x) == IF x.n < 0 THEN -1 ELSE IF x.n > 0 THEN 1 ELSE 0

\* x * y
JSMul(x, y) ==
    IF x.k = "NaN" \/ y.k = "NaN" THEN NaN
    ELSE IF x.k = "Inf" \/ y.k = "Inf"
         THEN IF Sign(x) * Sign(y) = 0 THEN NaN ELSE Inf(Sign(x) * Sign(y))
    ELSE Num(x.n * y.n, x.d * y.d)

\* x - y
JSSub(x, y) ==
    IF x.k = "NaN" \/ y.k = "NaN" THEN NaN
    ELSE IF x.k = "Inf" /\ y.k = "Inf"
         THEN IF x.n = y.n THEN NaN ELSE x
    ELSE IF x.k = "Inf" THEN x
    ELSE IF y.k = "Inf" THEN Inf(-y.n)
    ELSE Num(x.n * y.d - y.n * x.d, x.d * y.d)

\* x / y: 0/0 is NaN, x/0 an infinity.
JSDiv(x, y) ==
    IF x.k = "NaN" \/ y.k = "NaN" THEN NaN
    ELSE IF x.k = "Inf" /\ y.k = "Inf" THEN NaN
    ELSE IF x.k = "Inf" THEN Inf(IF y.n < 0 THEN -x.n ELSE x.n)
    ELSE IF y.k = "Inf" THEN Int2Num(0)
    ELSE IF y.n = 0 THEN (IF x.n = 0 THEN NaN ELSE Inf(Sign(x)))
    ELSE Num(x.n * y.d, x.d * y.n)

ISqrt(n) == CHOOSE r \in 0..n : r * r <= n /\ (r + 1) * (r + 1) > n

\* Math.sqrt(x): NaN for NaN and for negative x.
JSSqrt(x) ==
    IF x.k = "NaN" THEN NaN
    ELSE IF x.k = "Inf" THEN (IF x.n > 0 THEN x ELSE NaN)
    ELSE IF x.n < 0 THEN NaN
    ELSE LET rn == ISqrt(x.n)
             rd == ISqrt(x.d)
         IN  IF rn * rn = x.n /\ rd * rd = x.d
             THEN Num(rn, rd)
             ELSE [k |-> "sqrt", n |-> x.n, d |-> x.d]

-----------------------------------------------------------------------------
(* Array.prototype.sort() with no comparator: elements are compared as     *)
(* strings, by UTF-16 code unit.  Samples are whole milliseconds, whose    *)
(* string is their decimal digits.                                         *)

RECURSIVE NumberToString(_)
NumberToString(n) == IF n < 10 THEN <<n>> ELSE Append(NumberToString(n \div 10), n % 10)

RECURSIVE StrLess(_, _)
StrLess(a, b) ==
    IF b = <<>> THEN FALSE
    ELSE IF a = <<>> THEN TRUE
    ELSE IF Head(a) # Head(b) THEN Head(a) < Head(b)
    ELSE StrLess(Tail(a), Tail(b))

\* x sorts before y under the default comparator.
SortBefore(x, y) == StrLess(NumberToString(x), NumberToString(y))

RECURSIVE SortInsert(_, _)
SortInsert(s, x) ==
    IF s = <<>> THEN <<x>>
    ELSE IF SortBefore(x, Head(s)) THEN <<x>> \o s
    ELSE <<Head(s)>> \o SortInsert(Tail(s), x)

RECURSIVE ArraySort(_)
ArraySort(s) ==
    IF s = <<>> THEN <<>>
    ELSE SortInsert(ArraySort(SubSeq(s, 1, Len(s) - 1)), s[Len(s)])

\* As ArrayShift, keeping the first element.
ArrayShiftNothing(s) == s

\* Array.prototype.shift(): drops the first element, if any.
ArrayShift(s) == IF s = <<>> THEN <<>> ELSE Tail(s)

\* results.reduce(...) from {sum: 0, sum2: 0}
RECURSIVE Reduce(_)
Reduce(s) ==
    IF s = <<>> THEN [sum |-> 0, sum2 |-> 0]
    ELSE LET d == Reduce(SubSeq(s, 1, Len(s) - 1))
             v == s[Len(s)]
         IN  [sum |-> d.sum + v, sum2 |-> d.sum2 + v * v]

\* d.sum / results.length
Mean(results) == JSDiv(Int2Num(Reduce(results).sum), Int2Num(Len(results)))

\* As StdDenominator, dividing by the number of samples.
StdDenominatorPopulation(results) == Len(results)

\* results.length - 1, the divisor of the variance
StdDenominator(results) == Len(results) - 1

\* Math.sqrt((d.sum2 - results.length * mean * mean) / (results.length - 1))
Std(results) ==
    LET mean == Mean(results)
        len  == Int2Num(Len(results))
    IN  JSSqrt(JSDiv(JSSub(Int2Num(Reduce(results).sum2),
                           JSMul(JSMul(len, mean), mean)),
                     Int2Num(StdDenominator(results))))

\* The array summarize leaves in this.results: first run removed, sorted.
Retained(recorded) == ArraySort(ArrayShift(recorded))

-----------------------------------------------------------------------------
VARIABLES
    numIteration,  \* this.numIteration of each benchmark object
    results,       \* this.results: the run whose runAsync allocated the array (0: unset)
    heap,          \* the contents of the array allocated by each runAsync call
    summary,       \* this.summary: <<>> is null, <<s>> a Summary
    handle,        \* the adapter's engine handle (runner / model / session) is non-null
    pc,            \* where each run (each click) stands
    bench,         \* the benchmark object a run drives
    arg,           \* the numIteration passed to its runAsync
    i,             \* the loop variable of its executeAsync
    err,           \* the rejection reason travelling down its promise chain
    settled,       \* the state of the promise its runAsync returned
    ret,           \* the value that promise resolved with: <<>> is undefined
    snap,          \* this.results when its summarize was entered and when it returned
    trace          \* calls, settlements and console output of the run, in order

vars == <<numIteration, results, heap, summary, handle, pc, bench, arg, i,
          err, settled, ret, snap, trace>>

\* The program state as one value, for the handlers to transform.
State ==
    [numIteration |-> numIteration, results |-> results, heap |-> heap,
     summary |-> summary, handle |-> handle, pc |-> pc, bench |-> bench,
     arg |-> arg, i |-> i, err |-> err, settled |-> settled, ret |-> ret,
     snap |-> snap, trace |-> trace]

Commit(S) ==
    /\ numIteration' = S.numIteration
    /\ results' = S.results
    /\ heap' = S.heap
    /\ summary' = S.summary
    /\ handle' = S.handle
    /\ pc' = S.pc
    /\ bench' = S.bench
    /\ arg' = S.arg
    /\ i' = S.i
    /\ err' = S.err
    /\ settled' = S.settled
    /\ ret' = S.ret
    /\ snap' = S.snap
    /\ trace' = S.trace

Ev(tag, k, e) == <<tag, k, e>>

Init ==
    /\ numIteration = [b \in Bench |-> -1]
    /\ results = [b \in Bench |-> 0]
    /\ heap = [r \in Runs |-> <<>>]
    /\ summary = [b \in Bench |-> <<>>]
    /\ handle = [b \in Bench |-> FALSE]
    /\ pc = [r \in Runs |-> "idle"]
    /\ bench = [r \in Runs |-> "webdnn"]
    /\ arg = [r \in Runs |-> 0]
    /\ i = [r \in Runs |-> 0]
    /\ err = [r \in Runs |-> ""]
    /\ settled = [r \in Runs |-> "pending"]
    /\ ret = [r \in Runs |-> <<>>]
    /\ snap = [r \in Runs |-> <<>>]
    /\ trace = [r \in Runs |-> <<>>]

\* Where a run waits for a task (or has ended); elsewhere a reaction of its
\* promise chain is queued.
Waiting == {"idle", "loading", "cooldown", "executing", "done"}

-----------------------------------------------------------------------------
(* The handlers.                                                           *)

\* As Reject, with .catch placed before .then(() => this.finalizeAsync()).
RejectThenFinalize(S, r, e) == [S EXCEPT !.err[r] = e, !.pc[r] = "finalizeAsync"]

\* A phase rejected with reason e: every later .then of runAsync's chain is
\* skipped and its .catch runs.
Reject(S, r, e) == [S EXCEPT !.err[r] = e, !.pc[r] = "catch"]

\* The reasons a phase of runAsync's chain rejects with.
Reasons == {"setup failed", "execute failed", "TypeError: handle is null"}

\* Number(iterations.value) + 1, or 5 when that is NaN.
IterationsOf(field) ==
    IF field = <<>> THEN DefaultIterations ELSE field[1] + 1

\* run(): the click handler; benchmark.runAsync(numIteration) is queued.
run(S, r, b, field) ==
    [S EXCEPT !.bench[r] = b,
              !.arg[r] = IterationsOf(field),
              !.trace[r] = Append(@, Ev("console_log", 0, "start")),
              !.pc[r] = "runAsync"]

\* setupAsync() up to the promise it returns.  WebDNN.load and KerasJS
\* model.ready() settle in a later task; KerasJS has stored its model by
\* then.  DeepLearnJS throws for any model but resnet50 and otherwise
\* builds its session at once.
setupAsync(S, r, model) ==
    LET b == S.bench[r]
        T == [S EXCEPT !.trace[r] = Append(@, Ev("setupAsync", 0, "call"))]
    IN  IF b = "deeplearn"
        THEN IF model # "resnet50"
             THEN Reject([T EXCEPT !.trace[r] =
                             Append(@, Ev("setupAsync", 0, "setup failed"))],
                         r, "setup failed")
             ELSE [T EXCEPT !.handle[b] = TRUE,
                            !.trace[r] = Append(@, Ev("setupAsync", 0, "resolved")),
                            !.pc[r] = "executeAsync"]
        ELSE [T EXCEPT !.handle[b] = IF b = "keras" THEN TRUE ELSE @,
                       !.pc[r] = "loading"]

\* runAsync(numIteration)
runAsync(S, r, model) ==
    LET b == S.bench[r] IN
    setupAsync([S EXCEPT !.numIteration[b] = S.arg[r],
                         !.results[b] = r,
                         !.heap[r] = <<>>],
               r, model)

\* WebDNN.load(...) or model.ready() settles; WebDNN stores the runner.
setupSettled(S, r, ok) ==
    IF ok
    THEN [S EXCEPT !.handle[S.bench[r]] = IF S.bench[r] = "webdnn" THEN TRUE ELSE @,
                   !.trace[r] = Append(@, Ev("setupAsync", 0, "resolved")),
                   !.pc[r] = "executeAsync"]
    ELSE Reject([S EXCEPT !.trace[r] = Append(@, Ev("setupAsync", 0, "setup failed"))],
                r, "setup failed")

\* The test i < this.numIteration of the for loop: another iteration
\* announces itself and starts the cooldown; otherwise executeAsync
\* resolves and .then(() => this.finalizeAsync()) is queued.
LoopTest(S, r) ==
    IF S.i[r] < S.numIteration[S.bench[r]]
    THEN [S EXCEPT !.trace[r] = @ \o <<Ev("onExecuteSingle", S.i[r], "console_log"),
                                       Ev("setTimeout", S.i[r], "call")>>,
                   !.pc[r] = "cooldown"]
    ELSE [S EXCEPT !.pc[r] = "finalizeAsync"]

\* executeAsync(): let i = 0
executeAsync(S, r) == LoopTest([S EXCEPT !.i[r] = 0], r)

\* The cooldown timer fires: tStart is taken and executeSingleAsync()
\* called.  With a null handle the call throws a TypeError.  DeepLearnJS
\* evaluates synchronously (ok: it did not throw); the others return the
\* engine's promise.
executeSingleAsync(S, r, ok) ==
    LET b == S.bench[r]
        T == [S EXCEPT !.trace[r] = Append(@, Ev("executeSingleAsync", S.i[r], "call"))]
        Rejected(e) == Reject([T EXCEPT !.trace[r] =
                                  Append(@, Ev("executeSingleAsync", S.i[r], e))],
                              r, e)
    IN  IF ~S.handle[b] THEN Rejected("TypeError: handle is null")
        ELSE IF b # "deeplearn" THEN [T EXCEPT !.pc[r] = "executing"]
        ELSE IF ok
        THEN [T EXCEPT !.trace[r] =
                 Append(@, Ev("executeSingleAsync", S.i[r], "resolved")),
                       !.pc[r] = "afterExecuteSingle"]
        ELSE Rejected("execute failed")

\* runner.run() or model.predict() settles.
executeSingleSettled(S, r, ok) ==
    IF ok
    THEN [S EXCEPT !.trace[r] =
             Append(@, Ev("executeSingleAsync", S.i[r], "resolved")),
                   !.pc[r] = "afterExecuteSingle"]
    ELSE Reject([S EXCEPT !.trace[r] =
                    Append(@, Ev("executeSingleAsync", S.i[r], "execute failed"))],
                r, "execute failed")

\* After await this.executeSingleAsync(): the elapsed time t is pushed on
\* this.results, then i++ and the loop test.
afterExecuteSingle(S, r, t) ==
    LoopTest([S EXCEPT !.heap[S.results[S.bench[r]]] = Append(@, t),
                       !.trace[r] = Append(@, Ev("push", S.i[r], "results")),
                       !.i[r] = @ + 1],
             r)

\* .then(() => this.finalizeAsync()): every adapter nulls its handle.
finalizeAsync(S, r) ==
    [S EXCEPT !.handle[S.bench[r]] = FALSE,
              !.trace[r] = @ \o <<Ev("finalizeAsync", 0, "call"),
                                  Ev("finalizeAsync", 0, "resolved")>>,
              !.pc[r] = "summarize"]

\* The Summary summarize() returns; its results field is this.results itself.
Summary(b, ref, kept) ==
    [name |-> b, mean |-> Mean(kept), std |-> Std(kept), results |-> ref]

\* .then(() => { let summary = this.summarize(); this.summary = summary;
\* return summary; }): shift and sort work on this.results in place.
summarize(S, r) ==
    LET b == S.bench[r]
        ref == S.results[b]
        kept == Retained(S.heap[ref])
        s == Summary(b, ref, kept)
    IN  [S EXCEPT !.heap[ref] = kept,
                  !.summary[b] = <<s>>,
                  !.ret[r] = <<s>>,
                  !.settled[r] = "fulfilled",
                  !.snap[r] = <<[recorded |-> S.heap[ref], kept |-> kept]>>,
                  !.trace[r] = @ \o <<Ev("summarize", 0, "call"),
                                      Ev("summary", 0, "assigned")>>,
                  !.pc[r] = "summaryHandler"]

\* As catch, with the handler throwing err again after logging it.
catchRethrows(S, r) ==
    [S EXCEPT !.trace[r] = Append(@, Ev("console_error", 0, S.err[r])),
              !.settled[r] = "rejected",
              !.pc[r] = "summaryHandler"]

\* .catch((err) => console_error(err)): the promise of runAsync resolves
\* with undefined.
catch(S, r) ==
    [S EXCEPT !.trace[r] = Append(@, Ev("console_error", 0, S.err[r])),
              !.settled[r] = "fulfilled",
              !.ret[r] = <<>>,
              !.pc[r] = "summaryHandler"]

\* benchmark.runAsync(numIteration).then(summaryHandler): a rejected
\* runAsync skips the handler; reading summary.name of undefined throws a
\* TypeError; otherwise the summary line is logged.
summaryHandler(S, r) ==
    IF S.settled[r] = "rejected" THEN [S EXCEPT !.pc[r] = "runCatch"]
    ELSE IF S.ret[r] = <<>>
    THEN [S EXCEPT !.err[r] = "TypeError: summary is undefined",
                   !.pc[r] = "runCatch"]
    ELSE [S EXCEPT !.trace[r] = Append(@,
             Ev("console_log", 0,
                IF S.ret[r][1].std.k = "NaN" THEN "NaN" ELSE "summary")),
                   !.pc[r] = "benchmarkEnd"]

\* .then(() => console_log('Benchmark end'))
benchmarkEnd(S, r) ==
    [S EXCEPT !.trace[r] = Append(@, Ev("console_log", 0, "end")),
              !.pc[r] = "done"]

\* .catch(err => console_error(err)) of run()
runCatch(S, r) ==
    [S EXCEPT !.trace[r] = Append(@, Ev("console_error", 0, S.err[r])),
              !.pc[r] = "done"]

\* The next queued reaction of run r.  in holds what the environment
\* decides during the task: the selected model, the elapsed time measured,
\* whether a synchronous evaluation succeeds.
Reaction(S, r, in) ==
    CASE S.pc[r] = "runAsync" -> runAsync(S, r, in.model)
      [] S.pc[r] = "executeAsync" -> executeAsync(S, r)
      [] S.pc[r] = "afterExecuteSingle" -> afterExecuteSingle(S, r, in.t)
      [] S.pc[r] = "finalizeAsync" -> finalizeAsync(S, r)
      [] S.pc[r] = "summarize" -> summarize(S, r)
      [] S.pc[r] = "catch" -> catch(S, r)
      [] S.pc[r] = "summaryHandler" -> summaryHandler(S, r)
      [] S.pc[r] = "benchmarkEnd" -> benchmarkEnd(S, r)
      [] S.pc[r] = "runCatch" -> runCatch(S, r)

\* The queued reactions of run r run until it waits for a task again.
RECURSIVE Drain(_, _, _)
Drain(S, r, in) ==
    IF S.pc[r] \in Waiting THEN S ELSE Drain(Reaction(S, r, in), r, in)

In(model, t) == [model |-> model, t |-> t]

-----------------------------------------------------------------------------
(* The tasks.                                                              *)

\* A click on the run button with variant b selected, the iterations field
\* reading field and model selected.  Nothing disables the button while a
\* run is in flight.
Click(r, b, field, model) ==
    /\ pc[r] = "idle"
    /\ \A q \in Runs : q < r => pc[q] # "idle"
    /\ Commit(Drain(run(State, r, b, field), r, In(model, 0)))

\* The engine's load promise settles.
SetupSettles(r, ok) ==
    /\ pc[r] = "loading"
    /\ Commit(Drain(setupSettled(State, r, ok), r, In("", 0)))

\* The 1000 ms timer of an iteration fires; t is the elapsed time a
\* synchronous executeSingleAsync is measured to take.
TimerFires(r, ok, t) ==
    /\ pc[r] = "cooldown"
    \* only a synchronous evaluation can fail within this task
    /\ ok \/ (bench[r] = "deeplearn" /\ handle[bench[r]])
    /\ Commit(Drain(executeSingleAsync(State, r, ok), r, In("", t)))

\* The engine's run promise settles; t is the elapsed time measured.
ExecuteSingleSettles(r, ok, t) ==
    /\ pc[r] = "executing"
    /\ Commit(Drain(executeSingleSettled(State, r, ok), r, In("", t)))

\* The tasks of the runs R, with the iterations field read from F and
\* elapsed times from T.
Tasks(R, F, T) ==
    \/ \E r \in R, b \in Bench, f \in F, m \in Models : Click(r, b, f, m)
    \/ \E r \in R, ok \in BOOLEAN : SetupSettles(r, ok)
    \/ \E r \in R, ok \in BOOLEAN, t \in T : TimerFires(r, ok, t)
    \/ \E r \in R, ok \in BOOLEAN, t \in T : ExecuteSingleSettles(r, ok, t)

Next == Tasks(Runs, FieldValues, Elapsed)

\* Any sequence of clicks, runs overlapping as the event loop allows.
Spec == Init /\ [][Next]_vars

NextSolo == Tasks({1}, FieldValuesSolo, ElapsedSolo)

\* A single click, with a wider range of iteration counts and samples.
SpecSolo == Init /\ [][NextSolo]_vars

-----------------------------------------------------------------------------
(* What the properties below read off a run's trace.                       *)

IsRejection(ev) ==
    ev[1] \in {"setupAsync", "executeSingleAsync"} /\ ev[3] \in Reasons

Rejections(r) == {k \in DOMAIN trace[r] : IsRejection(trace[r][k])}

Positions(r, tag, e) ==
    {k \in DOMAIN trace[r] : trace[r][k][1] = tag /\ trace[r][k][3] = e}

\* The run has ended and none of its phases rejected.
Completed(r) == pc[r] = "done" /\ Rejections(r) = {}

\* The summary line or 'Benchmark end' was logged.
SummaryLines(r) ==
    {k \in DOMAIN trace[r] :
        trace[r][k][1] = "console_log" /\ trace[r][k][3] \in {"summary", "NaN"}}
EndLines(r) == Positions(r, "console_log", "end")
ErrorLines(r) == {k \in DOMAIN trace[r] : trace[r][k][1] = "console_error"}

IsPhase(ev) ==
    ev[1] \in {"setupAsync", "onExecuteSingle", "setTimeout",
               "executeSingleAsync", "push", "finalizeAsync", "summarize"}

RECURSIVE Iterations(_)
Iterations(n) ==
    IF n <= 0 THEN <<>>
    ELSE Iterations(n - 1) \o
         <<Ev("onExecuteSingle", n - 1, "console_log"),
           Ev("setTimeout", n - 1, "call"),
           Ev("executeSingleAsync", n - 1, "call"),
           Ev("executeSingleAsync", n - 1, "resolved"),
           Ev("push", n - 1, "results")>>

\* The phases of runAsync(n) in the order the contract gives them.
ExpectedPhases(n) ==
    <<Ev("setupAsync", 0, "call"), Ev("setupAsync", 0, "resolved")>>
    \o Iterations(n) \o
    <<Ev("finalizeAsync", 0, "call"), Ev("finalizeAsync", 0, "resolved"),
      Ev("summarize", 0, "call")>>

RECURSIVE SeqSum(_)
SeqSum(s) == IF s = <<>> THEN 0 ELSE Head(s) + SeqSum(Tail(s))

RECURSIVE SumSquaredDeviations(_, _, _)
\* Sum over x in s of (n*x - total)^2, which is n^2 * sum((x - mean)^2).
SumSquaredDeviations(s, n, total) ==
    IF s = <<>> THEN 0
    ELSE (n * Head(s) - total) * (n * Head(s) - total)
         + SumSquaredDeviations(Tail(s), n, total)

\* The arithmetic average of the samples xs.
Average(xs) == Num(SeqSum(xs), Len(xs))

\* sqrt(sum((x - mean)^2) / (n - 1)) of the samples xs, n >= 2.
BesselStd(xs) ==
    LET n == Len(xs)
    IN  JSSqrt(Num(SumSquaredDeviations(xs, n, SeqSum(xs)), n * n * (n - 1)))

Occurrences(s, x) == Cardinality({k \in DOMAIN s : s[k] = x})

IsPermutation(s, t) ==
    /\ Len(s) = Len(t)
    /\ \A k \in DOMAIN s : Occurrences(s, s[k]) = Occurrences(t, s[k])

-----------------------------------------------------------------------------
(* The claims.                                                             *)

\* C1: a run of runAsync(N) in which no phase rejects goes through setup,
\* then N iterations of notify, cooldown, timed executeSingleAsync and
\* push, then finalize, then summarize, in that order.
C1_PhasesInStrictSequence ==
    \A r \in Runs :
        Completed(r) => SelectSeq(trace[r], IsPhase) = ExpectedPhases(arg[r])

\* C2: a run of runAsync(N), N >= 2, in which no phase rejects calls
\* executeSingleAsync exactly N times and returns a Summary whose results
\* hold N-1 samples.
C2_ExactlyNExecutions ==
    \A r \in Runs :
        (Completed(r) /\ arg[r] >= 2) =>
            /\ Cardinality(Positions(r, "executeSingleAsync", "call")) = arg[r]
            /\ Len(snap[r][1].kept) = arg[r] - 1

\* C3: once setupAsync or an executeSingleAsync of a run has rejected, the
\* run calls neither again, never calls summarize, returns and stores no
\* Summary, and passes that error to console_error; after a rejected setup
\* no executeSingleAsync is called at all.
C3_RejectionAborts ==
    \A r \in Runs :
        LET rejections == Rejections(r) IN
        \A k \in rejections :
            /\ \A j \in DOMAIN trace[r] :
                  j > k => trace[r][j][1] \notin
                              {"setupAsync", "executeSingleAsync", "onExecuteSingle",
                               "summarize", "summary"}
            /\ trace[r][k][1] = "setupAsync" =>
                  \A j \in DOMAIN trace[r] : trace[r][j][1] # "executeSingleAsync"
            /\ rejections = {k}
            /\ ret[r] = <<>> /\ snap[r] = <<>>
            /\ \E j \in ErrorLines(r) : j > k /\ trace[r][j][3] = trace[r][k][3]

\* Runs that rejected in setup and in an iteration have both ended.
C3_Witness ==
    \E r, q \in Runs :
        /\ pc[r] = "done" /\ Positions(r, "setupAsync", "setup failed") # {}
        /\ pc[q] = "done" /\ Positions(q, "executeSingleAsync", "execute failed") # {}
        /\ Positions(q, "push", "results") # {}

\* C4: when executeSingleAsync rejects, finalizeAsync still runs before the
\* error is reported, and no adapter's handle is left non-null once every
\* run has ended (runs whose setup rejected set aside).
C4_FinalizeOnErrorPath ==
    /\ \A r \in Runs : \A k \in Rejections(r) :
          trace[r][k][1] = "executeSingleAsync" =>
              \E j \in Positions(r, "finalizeAsync", "call") :
                  /\ j > k
                  /\ \A e \in ErrorLines(r) : e > j
    /\ \A b \in Bench :
          (/\ \A r \in Runs : pc[r] \in {"idle", "done"}
           /\ \A r \in Runs : Positions(r, "setupAsync", "setup failed") = {}) =>
              ~handle[b]

\* C5: at most one run is in flight at any time.
C5_OneRunInFlight ==
    Cardinality({r \in Runs : pc[r] \notin {"idle", "done"}}) <= 1

\* C6: the results summarize returns are the recorded samples without the
\* first, in ascending numerical order.
C6_SortedAscending ==
    \A r \in Runs :
        snap[r] # <<>> =>
            LET kept == snap[r][1].kept
            IN  /\ IsPermutation(kept, ArrayShift(snap[r][1].recorded))
                /\ \A k \in 1..(Len(kept) - 1) : kept[k] <= kept[k + 1]

\* C7: with at least two retained samples the Summary's mean is their
\* arithmetic average and its std their Bessel-corrected standard
\* deviation, whatever their order; retained samples 10, 20, 30 give mean
\* 20 and std 10.
C7_MeanAndBesselStd ==
    \A r \in Runs :
        (ret[r] # <<>> /\ Len(snap[r][1].recorded) >= 3) =>
            LET xs == Tail(snap[r][1].recorded)
            IN  /\ ret[r][1].mean = Average(xs)
                /\ ret[r][1].std = BesselStd(xs)
                /\ IsPermutation(xs, <<10, 20, 30>>) =>
                      /\ ret[r][1].mean = Int2Num(20)
                      /\ ret[r][1].std = Int2Num(10)

\* A run recorded 9, 30, 10, 20 in that order and reports mean 20, std 10.
C7_Witness ==
    /\ ret[1] # <<>>
    /\ snap[1][1].recorded = <<9, 30, 10, 20>>
    /\ ret[1][1].mean = Int2Num(20)
    /\ ret[1][1].std = Int2Num(10)

\* C8: every failed run (rejected setup, rejected iteration, no sample left
\* for the standard deviation) passes an error to console_error and logs
\* neither a summary line nor 'Benchmark end'.
C8_EveryFailureVisible ==
    \A r \in Runs :
        (/\ pc[r] = "done"
         /\ \/ Rejections(r) # {}
            \/ (snap[r] # <<>> /\ snap[r][1].kept = <<>>)) =>
            /\ ErrorLines(r) # {}
            /\ SummaryLines(r) = {}
            /\ EndLines(r) = {}

\* C9 as stated: after runAsync(1), summarize retains no sample and the
\* divisor of the standard deviation is zero.
C9_DenominatorZero ==
    \A r \in Runs :
        (arg[r] = 1 /\ snap[r] # <<>>) =>
            /\ snap[r][1].kept = <<>>
            /\ StdDenominator(snap[r][1].kept) = 0

\* C9 amended: when summarize runs on exactly one recorded sample (a run of
\* one iteration) no sample is retained, the divisor of the standard
\* deviation is -1, the divisor of the mean is zero, and mean and std are
\* both NaN; the divisor of the standard deviation is zero when one sample
\* is retained, and std is NaN then too.
C9_ZeroRetainedIsNaN ==
    \A r \in Runs :
        snap[r] # <<>> =>
            /\ Len(snap[r][1].recorded) = 1 =>
                  /\ snap[r][1].kept = <<>>
                  /\ StdDenominator(snap[r][1].kept) = -1
                  /\ ret[r][1].mean = NaN
                  /\ ret[r][1].std = NaN
            /\ Len(snap[r][1].recorded) = 2 =>
                  /\ StdDenominator(snap[r][1].kept) = 0
                  /\ ret[r][1].mean = Int2Num(snap[r][1].kept[1])
                  /\ ret[r][1].std = NaN

\* A run of one iteration has summarized its single sample.
C9_Witness ==
    \E r \in Runs :
        /\ arg[r] = 1
        /\ snap[r] # <<>>
        /\ Len(snap[r][1].recorded) = 1
        /\ Positions(r, "console_log", "NaN") # {}

====
